---- MODULE Spec2Model ----
(***************************************************************************)
(* A model of pyohm.models.conductor.Conductor: the instance dictionary of *)
(* one Conductor, the defaults profile (use_default), assignment of base   *)
(* fields, and the read of every derived property.                         *)
(*                                                                         *)
(* Numbers.  Temperatures are held in hundredths of a degree C, elevation  *)
(* in whole metres, dates as records.  A derived value that Python         *)
(* computes with transcendental functions is held as the expression the    *)
(* property evaluates: a term <<operator, <<arguments>>>> whose leaves are *)
(* <<kind, field value>> and <<"const", "literal">>.  Two reads agree     *)
(* exactly when they evaluate the same expression over the same values.    *)
(* A read is a record [st, v]: st = "ok" with the value v, or the name of  *)
(* the exception raised.  Exceptions of the float arithmetic itself        *)
(* (division by zero, math domain errors) are not modelled; a missing      *)
(* attribute (AttributeError) and the ValueError of solar_azimuth are.     *)
(***************************************************************************)
EXTENDS Integers, Sequences, FiniteSets, TLC

VARIABLES
    d,      \* the instance dictionary: base field name -> value (unset = absent)
    op,     \* the last operation on the instance
    q,      \* the attribute last read or assigned
    out,    \* what the last read returned or raised
    fn,     \* a property's function taken alone: which one is applied
    arg,    \* its inputs
    res     \* its result

vars == <<d, op, q, out, fn, arg, res>>

---------------------------------------------------------------------------
(* Bounds of the model *)

MaxElevation == 1
NumYears == 2
MaxHourAngle == 200
MaxX == 2

FirstYear == 2023

---------------------------------------------------------------------------
(* Results and terms *)

Ok(v) == [st |-> "ok", v |-> v]

Raise(e, what) == [st |-> e, v |-> <<"raise", what>>]

NoResult == [st |-> "none", v |-> <<"none", "">>]

\* Leaves: a number, an exact decimal (limbs), a date-time, a boolean.
Val(x) == <<"int", x>>
Dec(x) == <<"dec", x>>
Date(x) == <<"date", x>>
Bool(x) == <<"bool", x>>

Const(c) == Ok(<<"const", c>>)

\* Python evaluates operands left to right; the first one that raises ends
\* the evaluation.
Ap(f, args) ==
    IF \A i \in 1..Len(args) : args[i].st = "ok"
    THEN Ok(<<f, [i \in 1..Len(args) |-> args[i].v]>>)
    ELSE LET i == CHOOSE i \in 1..Len(args) :
                      /\ args[i].st # "ok"
                      /\ \A j \in 1..(i - 1) : args[j].st = "ok"
         IN  args[i]

Sum(args) == Ap("add", args)
Prod(args) == Ap("mul", args)
Sub(a, b) == Ap("sub", <<a, b>>)
Div(a, b) == Ap("div", <<a, b>>)
Pow(a, b) == Ap("pow", <<a, b>>)
Sin(a) == Ap("sin", <<a>>)
Cos(a) == Ap("cos", <<a>>)
Tan(a) == Ap("tan", <<a>>)
Asin(a) == Ap("asin", <<a>>)
Acos(a) == Ap("acos", <<a>>)
Atan(a) == Ap("atan", <<a>>)
Radians(a) == Ap("radians", <<a>>)
Max2(a, b) == Ap("max", <<a, b>>)

---------------------------------------------------------------------------
(* The declared base fields and the defaults profile *)

BaseFields ==
    { "wind_speed", "wind_direction", "emissivity", "solar_absorption",
      "ambient_temperature", "conductor_surface_temperature",
      "aluminum_strand_layers_average_temperature",
      "max_allowable_conductor_temperature", "conductor_outside_diameter",
      "conductor_low_temperature", "conductor_high_temperature",
      "conductor_ac_resistance_low", "conductor_ac_resistance_high",
      "azimuth_of_conductor", "latitude", "clear_atmosphere", "date",
      "elevation" }

datetime(y, mo, dy, h, mi, s, us) ==
    [year |-> y, month |-> mo, day |-> dy, hour |-> h, minute |-> mi,
     second |-> s, microsecond |-> us]

DefaultDate == datetime(FirstYear, 6, 10, 11, 0, 0, 0)

\* DrakeConductorSpec: diameter in 1e-5 m, temperatures in 1e-2 degree C,
\* resistances in 1e-8 ohm/m.
DrakeConductorSpec ==
    [diameter |-> 2814, low_temperature |-> 2500, high_temperature |-> 7500,
     ac_resistance_low |-> 7283, ac_resistance_high |-> 8688]

\* The assignments of use_default, in its order.  Wind speed, emissivity
\* and absorption are in hundredths.
DefaultAssignments ==
    << <<"conductor_outside_diameter", DrakeConductorSpec.diameter>>,
       <<"conductor_low_temperature", DrakeConductorSpec.low_temperature>>,
       <<"conductor_high_temperature", DrakeConductorSpec.high_temperature>>,
       <<"conductor_ac_resistance_low", DrakeConductorSpec.ac_resistance_low>>,
       <<"conductor_ac_resistance_high", DrakeConductorSpec.ac_resistance_high>>,
       <<"max_allowable_conductor_temperature", 10000>>,
       <<"aluminum_strand_layers_average_temperature", 10000>>,
       <<"conductor_surface_temperature", 10000>>,
       <<"latitude", 30>>,
       <<"elevation", 0>>,
       <<"clear_atmosphere", TRUE>>,
       <<"ambient_temperature", 4000>>,
       <<"wind_speed", 61>>,
       <<"wind_direction", 90>>,
       <<"date", DefaultDate>>,
       <<"azimuth_of_conductor", 90>>,
       <<"emissivity", 80>>,
       <<"solar_absorption", 80>> >>

\* self.<n> = v
SetAttr(self, n, v) ==
    [k \in DOMAIN self \cup {n} |-> IF k = n THEN v ELSE self[k]]

RECURSIVE AssignAll(_, _, _)
AssignAll(self, as, i) ==
    IF i > Len(as) THEN self
    ELSE AssignAll(SetAttr(self, as[i][1], as[i][2]), as, i + 1)

use_default_without_elevation(self) ==
    AssignAll(self, SelectSeq(DefaultAssignments,
                              LAMBDA a : a[1] # "elevation"), 1)

use_default(self) == AssignAll(self, DefaultAssignments, 1)

\* self.<n>, n a declared base field: the instance dictionary, else
\* AttributeError (the class declares the annotation only).
Field(self, n) ==
    IF n \in DOMAIN self
    THEN Ok(CASE n = "date" -> Date(self[n])
              [] n = "clear_atmosphere" -> Bool(self[n])
              [] OTHER -> Val(self[n]))
    ELSE Raise("AttributeError", n)

---------------------------------------------------------------------------
(* datetime arithmetic, as the standard library's datetime does it *)

is_leap(year) == year % 4 = 0 /\ (year % 100 # 0 \/ year % 400 = 0)

DAYS_IN_MONTH == <<31, 28, 31, 30, 31, 30, 31, 31, 30, 31, 30, 31>>

days_in_month(year, month) ==
    IF month = 2 /\ is_leap(year) THEN 29 ELSE DAYS_IN_MONTH[month]

\* number of days before January 1st of year
days_before_year(year) ==
    LET y == year - 1
    IN  y * 365 + (y \div 4) - (y \div 100) + (y \div 400)

RECURSIVE days_before_month(_, _)
days_before_month(year, month) ==
    IF month = 1 THEN 0
    ELSE days_before_month(year, month - 1) + days_in_month(year, month - 1)

toordinal(dt) ==
    days_before_year(dt.year) + days_before_month(dt.year, dt.month) + dt.day

\* timedelta(days, seconds, microseconds), normalised as timedelta does:
\* 0 <= microseconds < 10^6, 0 <= seconds < 86400, the sign in days.
timedelta(days, seconds, microseconds) ==
    LET s1 == seconds + (microseconds \div 10^6)
    IN  [days |-> days + (s1 \div 86400),
         seconds |-> s1 % 86400,
         microseconds |-> microseconds % 10^6]

\* datetime.__sub__
datetime_sub(a, b) ==
    timedelta(toordinal(a) - toordinal(b),
              (a.second + a.minute * 60 + a.hour * 3600)
                  - (b.second + b.minute * 60 + b.hour * 3600),
              a.microsecond - b.microsecond)

\* date.replace(hour=0, minute=0, second=0, microsecond=0)
replace_time(dt, h, mi, s, us) ==
    [dt EXCEPT !.hour = h, !.minute = mi, !.second = s, !.microsecond = us]

---------------------------------------------------------------------------
(* Derived quantities computed exactly *)

NumberOfDay_without_plus_one(date) ==
    LET start_date == datetime(date.year, 1, 1, 0, 0, 0, 0)
        delta == datetime_sub(replace_time(date, 0, 0, 0, 0), start_date)
    IN  delta.days

NumberOfDay(date) ==
    LET start_date == datetime(date.year, 1, 1, 0, 0, 0, 0)
        delta == datetime_sub(replace_time(date, 0, 0, 0, 0), start_date)
    IN  delta.days + 1

number_of_day(self) ==
    LET dt == Field(self, "date")
    IN  IF dt.st # "ok" THEN dt ELSE Ok(Val(NumberOfDay(dt.v[2])))

\* (max allowable + ambient) / 2, in hundredths of a degree
t_film(self) ==
    LET a == Field(self, "max_allowable_conductor_temperature")
        b == Field(self, "ambient_temperature")
    IN  IF a.st # "ok" THEN a
        ELSE IF b.st # "ok" THEN b
        ELSE Ok(Val((a.v[2] + b.v[2]) \div 2))

HourAngle_from_zero(date) == date.hour * 15

HourAngle(date) == (date.hour - 12) * 15

hour_angle(self) ==
    LET dt == Field(self, "date")
    IN  IF dt.st # "ok" THEN dt ELSE Ok(Val(HourAngle(dt.v[2])))

\* Exact decimals: a number is six limbs <<l1, .., l6>> standing for
\* l1*10^8 + l2*10^4 + l3 + l4*10^-4 + l5*10^-8 + l6*10^-12; normalised,
\* l2..l6 lie in 0..9999 and l1 carries the sign.
LimbBase == 10^4
Limbs == 3 + 3

RECURSIVE Carry(_, _)
Carry(x, i) ==
    IF i = 1 THEN x
    ELSE Carry([x EXCEPT ![i] = x[i] % LimbBase,
                         ![i - 1] = x[i - 1] + (x[i] \div LimbBase)], i - 1)

Normal(x) ==
    LET c == Carry(x, Limbs)
    IN  <<c[1], c[2], c[3], c[4], c[5], c[6]>>

Plus(x, y) == [i \in 1..Limbs |-> x[i] + y[i]]

Times(x, k) == [i \in 1..Limbs |-> x[i] * k]

\* x < y, both normalised
Less(x, y) ==
    \E i \in 1..Limbs : x[i] < y[i] /\ \A j \in 1..(i - 1) : x[j] = y[j]

Dec_1 == <<0, 0, 1, 0, 0, 0>>
\* 1.148e-4
Dec_1_148em4 == <<0, 0, 0, 1, 1480, 0>>
\* -1.108e8
Dec_m1_108e8 == <<-1, -1080, 0, 0, 0, 0>>

\* 1 + 1.148e-4 * elevation + (-1.108e8 * elevation**2)
KSolar(elevation) ==
    Normal(Plus(Plus(Dec_1, Times(Dec_1_148em4, elevation)),
                Times(Dec_m1_108e8, elevation * elevation)))

total_solar_and_sky_radiated_heat_intensity_factor(self) ==
    LET e == Field(self, "elevation")
    IN  IF e.st # "ok" THEN e ELSE Ok(Dec(KSolar(e.v[2])))

\* The quadrant constant of the solar azimuth: <<C>>, or <<>> when no
\* branch of the if/elif chain applies (the else branch raises).
QuadrantC_closed(Xneg, ha) ==
    IF ~Xneg /\ -180 <= ha /\ ha < 0 THEN <<0>>
    ELSE IF ~Xneg /\ 0 <= ha /\ ha <= 180 THEN <<180>>
    ELSE IF Xneg /\ -180 <= ha /\ ha < 0 THEN <<180>>
    ELSE IF Xneg /\ 0 <= ha /\ ha <= 180 THEN <<360>>
    ELSE <<>>

QuadrantC(Xneg, ha) ==
    IF ~Xneg /\ -180 <= ha /\ ha < 0 THEN <<0>>
    ELSE IF ~Xneg /\ 0 <= ha /\ ha < 180 THEN <<180>>
    ELSE IF Xneg /\ -180 <= ha /\ ha < 0 THEN <<180>>
    ELSE IF Xneg /\ 0 <= ha /\ ha < 180 THEN <<360>>
    ELSE <<>>

\* The case split and Z_c = C + atan(X) for a finite X (held in
\* thousandths); the arctangent is kept as atan(X): <<C, X>>.
SolarAzimuthOf(X, ha) ==
    LET C == QuadrantC(X < 0, ha)
    IN  IF C = <<>> THEN [st |-> "ValueError", v |-> <<>>]
        ELSE [st |-> "ok", v |-> <<C[1], X>>]

---------------------------------------------------------------------------
(* Derived quantities held as the expression the property evaluates *)

air_density(self) ==
    Div(Sum(<<Sub(Const("1.293"),
                  Prod(<<Const("1.525e-4"), Field(self, "elevation")>>)),
              Prod(<<Const("6.379e-9"),
                     Pow(Field(self, "elevation"), Const("2"))>>)>>),
        Sum(<<Const("1"), Prod(<<Const("0.00367"), t_film(self)>>)>>))

p_f(self) == air_density(self)

air_viscosity(self) ==
    Ap("float",
       <<Div(Prod(<<Const("1.458e-6"),
                    Pow(Sum(<<t_film(self), Const("273")>>), Const("1.5"))>>),
             Sum(<<t_film(self), Const("383.4")>>))>>)

u_f(self) == air_viscosity(self)

air_thermal_conductivity(self) ==
    Sub(Sum(<<Const("2.424e-2"), Prod(<<Const("7.477e-5"), t_film(self)>>)>>),
        Prod(<<Const("4.407e-9"), Pow(t_film(self), Const("2"))>>))

k_f(self) == air_thermal_conductivity(self)

wind_direction_factor(self) ==
    Sum(<<Sub(Const("1.194"), Cos(Field(self, "wind_direction"))),
          Prod(<<Const("0.194"),
                 Cos(Prod(<<Const("2"), Field(self, "wind_direction")>>))>>),
          Prod(<<Const("0.368"),
                 Sin(Prod(<<Const("2"), Field(self, "wind_direction")>>))>>)>>)

k_angle(self) == wind_direction_factor(self)

radiated_heat_loss(self) ==
    Prod(<<Const("17.8"),
           Field(self, "conductor_outside_diameter"),
           Field(self, "emissivity"),
           Sub(Pow(Div(Sum(<<Field(self, "conductor_surface_temperature"),
                             Const("273")>>), Const("100")), Const("4")),
               Pow(Div(Sum(<<Field(self, "ambient_temperature"),
                             Const("273")>>), Const("100")), Const("4")))>>)

q_r(self) == radiated_heat_loss(self)

solar_declination(self) ==
    Prod(<<Const("23.45"),
           Sin(Radians(Prod(<<Div(Sum(<<Const("284"), number_of_day(self)>>),
                                  Const("365")),
                              Const("360")>>)))>>)

\* X of solar_azimuth
SolarAzimuthX(self) ==
    Div(Sin(hour_angle(self)),
        Sub(Prod(<<Sin(Field(self, "latitude")), Cos(hour_angle(self))>>),
            Prod(<<Cos(Field(self, "latitude")),
                   Tan(solar_declination(self))>>)))

\* The sign of X is not computed: C is held as the choice C(X, hour_angle),
\* and the read raises when the hour angle has no branch for any sign.
solar_azimuth(self) ==
    LET X == SolarAzimuthX(self)
        ha == hour_angle(self)
    IN  IF X.st # "ok" THEN X
        ELSE IF \A Xneg \in BOOLEAN : QuadrantC(Xneg, ha.v[2]) = <<>>
        THEN Raise("ValueError", "solar_azimuth")
        ELSE Sum(<<Ap("C", <<X, ha>>), Atan(X)>>)

solar_altitude(self) ==
    Asin(Sum(<<Prod(<<Cos(Field(self, "latitude")),
                      Cos(solar_declination(self)),
                      Cos(hour_angle(self))>>),
               Prod(<<Sin(Field(self, "latitude")),
                      Sin(solar_declination(self))>>)>>))

PolynomialCoefficientsOfClearAtmosphere ==
    [A |-> "-42.2391", B |-> "63.8044", C |-> "-1.9220", D |-> "3.46921e-2",
     E |-> "-3.61118e-4", F |-> "1.94318e-6", G |-> "-4.07608e-9"]

PolynomialCoefficientsOfIndustrialAtmosphere ==
    [A |-> "53.1821", B |-> "14.2110", C |-> "6.6138e-1", D |-> "-3.1658e-2",
     E |-> "5.4654e-4", F |-> "-4.3446e-6", G |-> "1.3236e-8"]

total_solar_and_sky_radiated_heat_intensity_at_sea_level(self) ==
    LET clear == Field(self, "clear_atmosphere")
    IN  IF clear.st # "ok" THEN clear
        ELSE LET coefficient_table ==
                     IF clear.v[2]
                     THEN PolynomialCoefficientsOfClearAtmosphere
                     ELSE PolynomialCoefficientsOfIndustrialAtmosphere
                 H == solar_altitude(self)
             IN  Sum(<<Const(coefficient_table.A),
                       Prod(<<Const(coefficient_table.B), H>>),
                       Prod(<<Const(coefficient_table.C), Pow(H, Const("2"))>>),
                       Prod(<<Const(coefficient_table.D), Pow(H, Const("3"))>>),
                       Prod(<<Const(coefficient_table.E), Pow(H, Const("4"))>>),
                       Prod(<<Const(coefficient_table.F), Pow(H, Const("5"))>>),
                       Prod(<<Const(coefficient_table.G), Pow(H, Const("6"))>>)>>)

total_solar_and_sky_radiated_heat_intensity(self) ==
    Prod(<<total_solar_and_sky_radiated_heat_intensity_factor(self),
           total_solar_and_sky_radiated_heat_intensity_at_sea_level(self)>>)

solar_heat_gain(self) ==
    LET theta == Acos(Prod(<<Cos(solar_altitude(self)),
                             Cos(Sub(solar_altitude(self),
                                     Field(self, "azimuth_of_conductor")))>>))
    IN  Prod(<<Field(self, "solar_absorption"),
               total_solar_and_sky_radiated_heat_intensity(self),
               Sin(theta),
               Field(self, "conductor_outside_diameter")>>)

q_s(self) == solar_heat_gain(self)

reynolds_number(self) ==
    Div(Prod(<<Field(self, "conductor_outside_diameter"),
               air_density(self),
               Field(self, "wind_speed")>>),
        air_viscosity(self))

N_Re(self) == reynolds_number(self)

natural_convection_heat_loss(self) ==
    Prod(<<Const("3.645"),
           Pow(air_density(self), Const("0.5")),
           Pow(Field(self, "conductor_outside_diameter"), Const("0.75")),
           Pow(Sub(Field(self, "conductor_surface_temperature"),
                   Field(self, "ambient_temperature")), Const("1.25"))>>)

q_cn(self) == natural_convection_heat_loss(self)

forced_convection_heat_loss(self) ==
    LET q_c1 == Prod(<<wind_direction_factor(self),
                       Sum(<<Const("1.05"),
                             Prod(<<Const("1.35"),
                                    Pow(reynolds_number(self), Const("0.52"))>>)>>),
                       air_thermal_conductivity(self),
                       Sub(Field(self, "conductor_surface_temperature"),
                           Field(self, "ambient_temperature"))>>)
        q_c2 == Prod(<<wind_direction_factor(self),
                       Const("0.754"),
                       Pow(reynolds_number(self), Const("0.6")),
                       air_thermal_conductivity(self),
                       Sub(Field(self, "conductor_surface_temperature"),
                           Field(self, "ambient_temperature"))>>)
    IN  Max2(q_c1, q_c2)

q_c(self) == forced_convection_heat_loss(self)

---------------------------------------------------------------------------
(* Attribute lookup on the instance *)

\* The properties class Conductor defines.
Properties ==
    { "number_of_day", "t_film", "air_density", "p_f", "air_viscosity", "u_f",
      "air_thermal_conductivity", "k_f", "wind_direction_factor", "k_angle",
      "radiated_heat_loss", "q_r", "solar_declination", "hour_angle",
      "solar_azimuth", "solar_altitude",
      "total_solar_and_sky_radiated_heat_intensity_at_sea_level",
      "total_solar_and_sky_radiated_heat_intensity_factor",
      "total_solar_and_sky_radiated_heat_intensity", "solar_heat_gain", "q_s",
      "reynolds_number", "N_Re", "natural_convection_heat_loss", "q_cn",
      "forced_convection_heat_loss", "q_c" }

PropertyGet(self, n) ==
    CASE n = "number_of_day" -> number_of_day(self)
      [] n = "t_film" -> t_film(self)
      [] n = "air_density" -> air_density(self)
      [] n = "p_f" -> p_f(self)
      [] n = "air_viscosity" -> air_viscosity(self)
      [] n = "u_f" -> u_f(self)
      [] n = "air_thermal_conductivity" -> air_thermal_conductivity(self)
      [] n = "k_f" -> k_f(self)
      [] n = "wind_direction_factor" -> wind_direction_factor(self)
      [] n = "k_angle" -> k_angle(self)
      [] n = "radiated_heat_loss" -> radiated_heat_loss(self)
      [] n = "q_r" -> q_r(self)
      [] n = "solar_declination" -> solar_declination(self)
      [] n = "hour_angle" -> hour_angle(self)
      [] n = "solar_azimuth" -> solar_azimuth(self)
      [] n = "solar_altitude" -> solar_altitude(self)
      [] n = "total_solar_and_sky_radiated_heat_intensity_at_sea_level" ->
             total_solar_and_sky_radiated_heat_intensity_at_sea_level(self)
      [] n = "total_solar_and_sky_radiated_heat_intensity_factor" ->
             total_solar_and_sky_radiated_heat_intensity_factor(self)
      [] n = "total_solar_and_sky_radiated_heat_intensity" ->
             total_solar_and_sky_radiated_heat_intensity(self)
      [] n = "solar_heat_gain" -> solar_heat_gain(self)
      [] n = "q_s" -> q_s(self)
      [] n = "reynolds_number" -> reynolds_number(self)
      [] n = "N_Re" -> N_Re(self)
      [] n = "natural_convection_heat_loss" -> natural_convection_heat_loss(self)
      [] n = "q_cn" -> q_cn(self)
      [] n = "forced_convection_heat_loss" -> forced_convection_heat_loss(self)
      [] n = "q_c" -> q_c(self)

\* conductor.<n>: a property of the class, else the instance dictionary,
\* else AttributeError.
GetAttr(self, n) ==
    IF n \in Properties THEN PropertyGet(self, n)
    ELSE Field(self, n)

---------------------------------------------------------------------------
(* The instance: construction, use_default, assignment, reads *)

\* The attributes the test suite reads.
TestedNames ==
    { "t_film", "number_of_day", "p_f", "u_f", "k_f", "N_Re", "H_c", "Z_c",
      "Q_s", "q_cn", "q_c", "q_r", "q_s", "R_avg", "I" }

ReadNames == Properties \cup TestedNames

\* The values the environment assigns; every other field is set by
\* use_default only.
Settable ==
    [conductor_surface_temperature |-> {10000, 11960},
     ambient_temperature |-> {4000, 2500},
     max_allowable_conductor_temperature |-> {7500},
     elevation |-> 0..MaxElevation,
     date |-> {[DefaultDate EXCEPT !.hour = 23]}]

Idle == [st |-> "idle", v |-> <<>>]

\* Conductor(): __init__ sets nothing.
Init ==
    /\ d = <<>>
    /\ op = "init"
    /\ q = ""
    /\ out = NoResult
    /\ fn = "none"
    /\ arg = [date |-> DefaultDate, X |-> 0, ha |-> 0]
    /\ res = Idle

UseDefault ==
    /\ d' = use_default(d)
    /\ op' = "use_default"
    /\ q' = ""
    /\ out' = NoResult
    /\ UNCHANGED <<fn, arg, res>>

Assign ==
    \E n \in DOMAIN Settable : \E v \in Settable[n] :
        /\ d' = SetAttr(d, n, v)
        /\ op' = "assign"
        /\ q' = n
        /\ out' = NoResult
        /\ UNCHANGED <<fn, arg, res>>

\* The read of a functools.cached_property: the first value is stored in
\* the instance dictionary and returned from there afterwards.
ReadCached ==
    \E n \in ReadNames :
        LET r == IF n \in DOMAIN d /\ n \in Properties THEN Ok(d[n])
                 ELSE GetAttr(d, n)
        IN  /\ out' = r
            /\ d' = IF n \in Properties /\ r.st = "ok"
                    THEN SetAttr(d, n, r.v) ELSE d
            /\ op' = "read"
            /\ q' = n
            /\ UNCHANGED <<fn, arg, res>>

Read ==
    \E n \in ReadNames :
        /\ out' = GetAttr(d, n)
        /\ op' = "read"
        /\ q' = n
        /\ UNCHANGED <<d, fn, arg, res>>

Next == UseDefault \/ Assign \/ Read

Spec == Init /\ [][Next]_vars

---------------------------------------------------------------------------
(* The pure functions applied to inputs drawn from bounded sets *)

Years == (FirstYear..(FirstYear + NumYears - 1)) \cup {2000, 2100}

ValidDates(hours, minutes, seconds, micros) ==
    { datetime(y, mo, dy, h, mi, s, us) :
        y \in Years, mo \in 1..12, dy \in 1..31,
        h \in hours, mi \in minutes, s \in seconds, us \in micros }

DayInputs ==
    { dt \in ValidDates({0, 11, 23}, {0, 59}, {0}, {0, 999999}) :
        dt.day <= days_in_month(dt.year, dt.month) }

HourInputs ==
    { dt \in ValidDates(0..23, {0, 59}, {0}, {0}) :
        dt.year = FirstYear /\ dt.month = 6 /\ dt.day \in {10, 30} }

Pending == [st |-> "pending", v |-> <<>>]

InitFn ==
    /\ d = <<>>
    /\ op = "init"
    /\ q = ""
    /\ out = NoResult
    /\ res = Pending
    /\ \/ /\ fn = "number_of_day"
          /\ arg \in [date : DayInputs, X : {0}, ha : {0}]
       \/ /\ fn = "hour_angle"
          /\ arg \in [date : HourInputs, X : {-MaxX, MaxX}, ha : {0}]
       \/ /\ fn = "solar_azimuth"
          /\ arg \in [date : {DefaultDate}, X : (-MaxX)..MaxX,
                      ha : (-MaxHourAngle)..MaxHourAngle]

ApplyNumberOfDay ==
    /\ fn = "number_of_day"
    /\ res = Pending
    /\ res' = [st |-> "ok", v |-> <<NumberOfDay(arg.date)>>]
    /\ UNCHANGED <<d, op, q, out, fn, arg>>

ApplyHourAngle ==
    /\ fn = "hour_angle"
    /\ res = Pending
    /\ res' = [st |-> "ok", v |-> <<HourAngle(arg.date)>>]
    /\ UNCHANGED <<d, op, q, out, fn, arg>>

ApplySolarAzimuth ==
    /\ fn = "solar_azimuth"
    /\ res = Pending
    /\ res' = SolarAzimuthOf(arg.X, arg.ha)
    /\ UNCHANGED <<d, op, q, out, fn, arg>>

NextFn == ApplyNumberOfDay \/ ApplyHourAngle \/ ApplySolarAzimuth

SpecFn == InitFn /\ [][NextFn]_vars

---------------------------------------------------------------------------
(* Claims *)

Populated == BaseFields \subseteq DOMAIN d

\* C1: in every state of a populated conductor the t_film read is the mean
\* of the conductor surface temperature and the ambient temperature, so it
\* follows a newly assigned surface temperature.
C1_FilmIsMeanOfSurfaceAndAmbient ==
    (op = "read" /\ q = "t_film" /\ Populated) =>
        out = Ok(Val((d["conductor_surface_temperature"]
                        + d["ambient_temperature"]) \div 2))

\* The quantities the interface lists, under the names the tests read.
InterfaceReads ==
    { "t_film", "p_f", "u_f", "k_f", "number_of_day", "solar_declination",
      "hour_angle", "H_c", "Z_c", "Q_s", "q_r", "q_cn", "q_c", "q_s",
      "N_Re", "R_avg", "I" }

\* C2: after use_default on a fresh Conductor every listed derived quantity
\* reads as a value, never as a missing attribute.
C2_EveryListedQuantityReads ==
    (op = "read" /\ d = use_default(<<>>) /\ q \in InterfaceReads) =>
        out.st = "ok"

\* R(T) = R_low + (R_high - R_low) * (T - T_low) / (T_high - T_low)
ClaimedResistance(self) ==
    Sum(<<Field(self, "conductor_ac_resistance_low"),
          Div(Prod(<<Sub(Field(self, "conductor_ac_resistance_high"),
                         Field(self, "conductor_ac_resistance_low")),
                     Sub(Field(self, "conductor_surface_temperature"),
                         Field(self, "conductor_low_temperature"))>>),
              Sub(Field(self, "conductor_high_temperature"),
                  Field(self, "conductor_low_temperature")))>>)

ClaimedAmpacity(self) ==
    Ap("sqrt",
       <<Div(Max2(Const("0"),
                  Sub(Sum(<<q_r(self), q_c(self)>>), q_s(self))),
             ClaimedResistance(self))>>)

\* C3: on a populated conductor the ampacity read never raises and returns
\* sqrt(max(0, q_r + q_c - q_s) / R(T_conductor)).
C3_AmpacityReadReturnsClampedRoot ==
    (op = "read" /\ q = "I" /\ Populated) =>
        (out.st = "ok" /\ out = ClaimedAmpacity(d))

\* C4: a Conductor is constructed with no field set; after use_default all
\* 18 declared fields are set, no property read meets an unset field, and
\* use_default again leaves the instance as it is.
C4_UseDefaultPopulatesEveryField ==
    /\ op = "init" => DOMAIN d = {}
    /\ op = "use_default" =>
          /\ Cardinality(BaseFields) = 18
          /\ BaseFields \subseteq DOMAIN d
          /\ \A n \in Properties : GetAttr(d, n).st # "AttributeError"
          /\ use_default(d) = d

C4_Witness ==
    /\ op = "use_default"
    /\ DOMAIN d = BaseFields
    /\ d["elevation"] = 0
    /\ GetAttr(d, "q_c").st = "ok"

InDomain(ha) == -180 <= ha /\ ha < 180

\* The four cases of the solar azimuth, as the claim lists them.
ClaimedCases(X, ha) ==
    { c \in { [when |-> X >= 0 /\ ha < 0, C |-> 0],
              [when |-> X >= 0 /\ ha >= 0, C |-> 180],
              [when |-> X < 0 /\ ha < 0, C |-> 180],
              [when |-> X < 0 /\ ha >= 0, C |-> 360] } : c.when }

\* How many of the four cases apply.
CasesApplying(X, ha) ==
    Cardinality({ i \in 1..4 :
        \/ i = 1 /\ X >= 0 /\ ha < 0
        \/ i = 2 /\ X >= 0 /\ ha >= 0
        \/ i = 3 /\ X < 0 /\ ha < 0
        \/ i = 4 /\ X < 0 /\ ha >= 0 })

\* C5: the solar azimuth raises the invalid-domain error exactly when the
\* hour angle is outside [-180, 180); inside, exactly one of the four cases
\* applies and the result is that case's C plus atan(X).
C5_AzimuthErrorIffOutsideDomain ==
    (fn = "solar_azimuth" /\ res # Pending) =>
        /\ res.st = "ValueError" <=> ~InDomain(arg.ha)
        /\ InDomain(arg.ha) =>
              /\ CasesApplying(arg.X, arg.ha) = 1
              /\ \E c \in ClaimedCases(arg.X, arg.ha) :
                     res = [st |-> "ok", v |-> <<c.C, arg.X>>]

C5_Witness ==
    fn = "solar_azimuth" /\ arg.ha = 180 /\ arg.X > 0 /\ res.st = "ValueError"

\* C6: a derived read changes no base field and returns what the fields of
\* that moment determine: a second read of the same attribute with no
\* assignment between returns the same, a read after an assignment is
\* computed from the assigned value.
C6_ReadsArePureAndUncached ==
    [][ op' = "read" =>
          /\ d' = d
          /\ out' = GetAttr(d', q')
          /\ (op = "read" /\ q = q') => out' = out ]_vars

C6_Witness ==
    /\ op = "read"
    /\ q = "t_film"
    /\ Populated
    /\ d["max_allowable_conductor_temperature"] = 7500
    /\ out = Ok(Val(5750))

\* The Gregorian calendar, stated on its own.
GregorianLeap(y) == (y % 4 = 0 /\ y % 100 # 0) \/ y % 400 = 0

GregorianMonthLength(y, mo) ==
    IF mo \in {4, 6, 9, 11} THEN 30
    ELSE IF mo = 2 THEN (IF GregorianLeap(y) THEN 29 ELSE 28)
    ELSE 31

\* The calendar days of the year of dt from January 1 up to dt.
DaysUpTo(dt) ==
    { md \in (1..12) \X (1..31) :
        /\ md[2] <= GregorianMonthLength(dt.year, md[1])
        /\ md[1] < dt.month \/ (md[1] = dt.month /\ md[2] <= dt.day) }

\* C7: number_of_day is the number of whole days from January 1 of the
\* year to the date, plus 1: 1 on January 1, within 1..365 (1..366 in a leap
\* year), the same at every time of the day, and 161 on 10 June 2023.
C7_NumberOfDayIsOrdinalInYear ==
    (fn = "number_of_day" /\ res # Pending) =>
        LET dt == arg.date
            n == res.v[1]
        IN  /\ res.st = "ok"
            /\ n = (Cardinality(DaysUpTo(dt)) - 1) + 1
            /\ (dt.month = 1 /\ dt.day = 1) => n = 1
            /\ n \in 1..(IF GregorianLeap(dt.year) THEN 366 ELSE 365)
            /\ \A h \in {0, 12, 23}, us \in {0, 999999} :
                   NumberOfDay(replace_time(dt, h, 59, 59, us)) = n
            /\ (dt.year = 2023 /\ dt.month = 6 /\ dt.day = 10) => n = 161

C7_Witness ==
    /\ fn = "number_of_day"
    /\ arg.date.year = 2024 /\ arg.date.month = 12 /\ arg.date.day = 31
    /\ arg.date.hour = 23
    /\ res = [st |-> "ok", v |-> <<366>>]

\* -1.108e-8
Dec_m1_108em8 == <<0, 0, 0, 0, -1, -1080>>

\* 1 + 1.148e-4 * elevation - 1.108e-8 * elevation^2
ClaimedKSolar(elevation) ==
    Normal(Plus(Plus(Dec_1, Times(Dec_1_148em4, elevation)),
                Times(Dec_m1_108em8, elevation * elevation)))

\* C8: the elevation correction factor is 1 + 1.148e-4*e - 1.108e-8*e^2,
\* exactly 1 at elevation 0 and never below 1, and the corrected intensity
\* is the factor times the sea-level intensity.
C8_ElevationFactorPolynomial ==
    /\ (op = "read" /\ Populated
          /\ q = "total_solar_and_sky_radiated_heat_intensity_factor") =>
          /\ out = Ok(Dec(ClaimedKSolar(d["elevation"])))
          /\ ~Less(out.v[2], Dec_1)
          /\ d["elevation"] = 0 => out.v[2] = Dec_1
    /\ (op = "read" /\ Populated
          /\ q = "total_solar_and_sky_radiated_heat_intensity") =>
          out = Prod(<<Ok(Dec(ClaimedKSolar(d["elevation"]))),
                       total_solar_and_sky_radiated_heat_intensity_at_sea_level(d)>>)

\* q_s with the incidence angle of the claim:
\* acos(cos(solar_altitude) * cos(solar_azimuth - azimuth_of_conductor))
ClaimedSolarHeatGain(self) ==
    LET theta == Acos(Prod(<<Cos(solar_altitude(self)),
                             Cos(Sub(solar_azimuth(self),
                                     Field(self, "azimuth_of_conductor")))>>))
    IN  Prod(<<Field(self, "solar_absorption"),
               total_solar_and_sky_radiated_heat_intensity(self),
               Sin(theta),
               Field(self, "conductor_outside_diameter")>>)

\* C9: the solar heat gain is absorption * Q_se * sin(theta) * diameter with
\* theta taken from the solar azimuth minus the conductor azimuth.
C9_SolarGainUsesSolarAzimuth ==
    (op = "read" /\ q = "solar_heat_gain" /\ Populated) =>
        out = ClaimedSolarHeatGain(d)

\* C10: for a valid date-time the hour angle is (hour - 12) * 15, the same
\* for every date and minute of that hour, a multiple of 15 within
\* [-180, 165], so the solar azimuth finds a case for every finite X.
C10_HourAngleWithinDomain ==
    (fn = "hour_angle" /\ res # Pending) =>
        LET ha == res.v[1]
        IN  /\ res.st = "ok"
            /\ ha = (arg.date.hour - 12) * 15
            /\ \A dt \in HourInputs :
                   dt.hour = arg.date.hour => HourAngle(dt) = ha
            /\ ha % 15 = 0
            /\ -180 <= ha /\ ha <= 165
            /\ \A Xneg \in BOOLEAN : QuadrantC(Xneg, ha) # <<>>
            /\ SolarAzimuthOf(arg.X, ha).st = "ok"

C10_Witness ==
    /\ fn = "hour_angle"
    /\ arg.date.hour = 0
    /\ arg.X < 0
    /\ res = [st |-> "ok", v |-> <<-180>>]

====
